---- MODULE Spec2Model ----
(***************************************************************************)
(* Model of zero_cost_etl/daily_sync.py: a one-shot ETL run that fetches   *)
(* the Google Play installs export and the App Store sales report for a    *)
(* target date, and appends the combined rows to a Google Sheet.           *)
(*                                                                         *)
(* Text is a sequence of one-character strings, so that split, strip and   *)
(* int() are computed on characters the way the Python code computes them. *)
(***************************************************************************)
EXTENDS Integers, Sequences, FiniteSets, TLC

(* ------------------------------------------------------------------ *)
(* Bounds of the model                                                  *)
(* ------------------------------------------------------------------ *)
\* number of records in a vendor table drawn for the fetcher specification
MaxRows == 2
\* number of times the scheduler starts the job
MaxRuns == 2

(* ------------------------------------------------------------------ *)
(* String literals of the source                                        *)
(* ------------------------------------------------------------------ *)
DATE == <<"D","a","t","e">>
COUNTRY == <<"C","o","u","n","t","r","y">>
DAILY_USER_INSTALLS ==
  <<"D","a","i","l","y"," ","U","s","e","r"," ","I","n","s","t","a","l","l","s">>
UNKNOWN == <<"U","n","k","n","o","w","n">>
ANDROID == <<"A","n","d","r","o","i","d">>
UNITS == <<"U","n","i","t","s">>
COUNTRY_CODE == <<"C","o","u","n","t","r","y"," ","C","o","d","e">>
IOS == <<"i","O","S">>
\* Python's None, as a value no text can equal (text holds one-character strings)
PyNone == <<"None">>
TAB == "\t"
NL == "\n"
COMMA == ","

(* ------------------------------------------------------------------ *)
(* Python primitives                                                    *)
(* ------------------------------------------------------------------ *)
Digit == <<"0","1","2","3","4","5","6","7","8","9">>
IsDigit(c) == \E i \in 1..10 : Digit[i] = c
DigitVal(c) == (CHOOSE i \in 1..10 : Digit[i] = c) - 1
IsSpace(c) == c \in {" ", "\t", "\n", "\r"}

\* str.split(sep) for a one-character separator: the pieces between the
\* occurrences of sep, so always at least one piece
SepPositions(s, sep) == {i \in 1..Len(s) : s[i] = sep}
\* the k-th occurrence of sep in s; 0 before the first, Len(s) + 1 after the last
SepAt(s, sep, k) ==
  LET P == SepPositions(s, sep)
  IN IF k = 0 THEN 0
     ELSE IF k > Cardinality(P) THEN Len(s) + 1
     ELSE CHOOSE p \in P : Cardinality({q \in P : q < p}) = k - 1
Split(s, sep) ==
  [k \in 1..(Cardinality(SepPositions(s, sep)) + 1) |->
     SubSeq(s, SepAt(s, sep, k - 1) + 1, SepAt(s, sep, k) - 1)]

\* str.strip(): leading and trailing whitespace removed
RECURSIVE LStrip(_)
LStrip(s) == IF s # <<>> /\ IsSpace(Head(s)) THEN LStrip(Tail(s)) ELSE s
RECURSIVE RStrip(_)
RStrip(s) ==
  IF s # <<>> /\ IsSpace(s[Len(s)]) THEN RStrip(SubSeq(s, 1, Len(s) - 1)) ELSE s
Strip(s) == RStrip(LStrip(s))

\* list.index(x): the first position of x (1-based here), 0 for ValueError
ListIndex(list, x) ==
  IF \E i \in 1..Len(list) : list[i] = x
  THEN CHOOSE i \in 1..Len(list) : list[i] = x /\ \A j \in 1..(i - 1) : list[j] # x
  ELSE 0

\* the value of a run of decimal digits
RECURSIVE DigitsValue(_, _)
DigitsValue(s, acc) ==
  IF s = <<>> THEN acc ELSE DigitsValue(Tail(s), 10 * acc + DigitVal(Head(s)))
AllDigits(s) == s # <<>> /\ \A i \in 1..Len(s) : IsDigit(s[i])

\* int(x) for a str x: surrounding whitespace, an optional sign, decimal digits
\* (text of the model holds no underscore); exc is "ValueError" otherwise.
\* int(None) raises TypeError.
PyInt(x) ==
  IF x = PyNone THEN [exc |-> "TypeError", val |-> 0]
  ELSE LET t == Strip(x)
           signed == t # <<>> /\ Head(t) \in {"-", "+"}
           body == IF signed THEN Tail(t) ELSE t
       IN IF ~AllDigits(body) THEN [exc |-> "ValueError", val |-> 0]
          ELSE IF signed /\ Head(t) = "-"
               THEN [exc |-> "none", val |-> 0 - DigitsValue(body, 0)]
               ELSE [exc |-> "none", val |-> DigitsValue(body, 0)]

\* zero-padded decimal of width w, as strftime writes %Y, %m and %d
RECURSIVE Pad(_, _)
Pad(n, w) == IF w = 0 THEN <<>> ELSE Append(Pad(n \div 10, w - 1), Digit[(n % 10) + 1])
\* a variant that writes month and day without zero padding
StrftimeYmd_Unpadded(d) ==
  Pad(d.year, 4) \o <<"-">> \o Pad(d.month, 1) \o <<"-">> \o Pad(d.day, 1)
\* target_date.strftime('%Y-%m-%d')
StrftimeYmd(d) == Pad(d.year, 4) \o <<"-">> \o Pad(d.month, 2) \o <<"-">> \o Pad(d.day, 2)

(* ------------------------------------------------------------------ *)
(* csv.DictReader over io.StringIO(content) (text of the model holds no *)
(* quote character, so quoting never applies)                           *)
(* ------------------------------------------------------------------ *)
\* csv.reader: one row per line, an empty line gives the empty row
CsvReader(text) ==
  LET pieces == Split(text, NL)
  IN [i \in 1..Len(pieces) |-> IF pieces[i] = <<>> THEN <<>> ELSE Split(pieces[i], COMMA)]
\* DictReader.fieldnames: the first row the reader yields
Fieldnames(text) == CsvReader(text)[1]
\* the rows DictReader yields: the rows after the first, blank rows skipped
DictRows(text) == SelectSeq(Tail(CsvReader(text)), LAMBDA r : r # <<>>)
\* key in row, for the dict DictReader builds from fieldnames and a row
DictHas(fieldnames, key) == \E i \in 1..Len(fieldnames) : fieldnames[i] = key
\* row[key]: the last column of that name; None (restval) when the row is
\* too short to reach a column of that name
DictGet(fieldnames, row, key) ==
  LET idxs == {i \in 1..Len(fieldnames) : fieldnames[i] = key}
  IN IF \E i \in idxs : i > Len(row) THEN PyNone
     ELSE row[CHOOSE i \in idxs : \A j \in idxs : j <= i]

(* ------------------------------------------------------------------ *)
(* get_google_play_data, lines 66-85: the parse loop                    *)
(* The result is [exc, data]: exc is "none" when the loop ends, or the  *)
(* exception that leaves the function, uncaught, at the first bad row.  *)
(* ------------------------------------------------------------------ *)
\* a variant that lets a count of zero through
KeepInstalls_NonNegative(installs) == installs >= 0
\* line 77: emit only rows with installs
KeepInstalls(installs) == installs > 0

RECURSIVE GooglePlayLoop(_, _, _, _, _)
GooglePlayLoop(fieldnames, rows, i, date_str, data) ==
  IF i > Len(rows) THEN [exc |-> "none", data |-> data]
  ELSE
    LET row == rows[i] IN
    IF ~DictHas(fieldnames, DATE) THEN [exc |-> "KeyError", data |-> <<>>]
    ELSE IF DictGet(fieldnames, row, DATE) # date_str
      THEN GooglePlayLoop(fieldnames, rows, i + 1, date_str, data)
    ELSE
      LET installs == IF DictHas(fieldnames, DAILY_USER_INSTALLS)
                      THEN PyInt(DictGet(fieldnames, row, DAILY_USER_INSTALLS))
                      ELSE [exc |-> "none", val |-> 0]
          country == IF DictHas(fieldnames, COUNTRY)
                     THEN DictGet(fieldnames, row, COUNTRY)
                     ELSE UNKNOWN
      IN IF installs.exc # "none" THEN [exc |-> installs.exc, data |-> <<>>]
         ELSE IF KeepInstalls(installs.val)
           THEN GooglePlayLoop(fieldnames, rows, i + 1, date_str,
                  Append(data, <<DictGet(fieldnames, row, DATE), country, ANDROID, installs.val>>))
         ELSE GooglePlayLoop(fieldnames, rows, i + 1, date_str, data)

GooglePlayParse(text, date_str) ==
  GooglePlayLoop(Fieldnames(text), DictRows(text), 1, date_str, <<>>)

(* ------------------------------------------------------------------ *)
(* get_apple_data, lines 134-160: header lookup and the parse loop      *)
(* The result is [exc, found, data]: found is FALSE when a column is    *)
(* missing (the ValueError caught at line 143).                         *)
(* ------------------------------------------------------------------ *)
\* line 152: emit only lines with units
KeepUnits(units) == units > 0

RECURSIVE AppleLoop(_, _, _, _, _, _)
AppleLoop(lines, i, idx_units, idx_country, date_str, data) ==
  IF i > Len(lines) THEN [exc |-> "none", found |-> TRUE, data |-> data]
  ELSE
    LET cols == Split(lines[i], TAB) IN
    IF idx_units > Len(cols) THEN [exc |-> "IndexError", found |-> TRUE, data |-> <<>>]
    ELSE
      LET units == PyInt(cols[idx_units]) IN
      IF units.exc # "none" THEN [exc |-> units.exc, found |-> TRUE, data |-> <<>>]
      ELSE IF idx_country > Len(cols)
        THEN [exc |-> "IndexError", found |-> TRUE, data |-> <<>>]
      ELSE IF KeepUnits(units.val)
        THEN AppleLoop(lines, i + 1, idx_units, idx_country, date_str,
               Append(data, <<date_str, cols[idx_country], IOS, units.val>>))
      ELSE AppleLoop(lines, i + 1, idx_units, idx_country, date_str, data)

\* lines 140-145: both columns must be in the header
HeaderFound(header) == ListIndex(header, UNITS) # 0 /\ ListIndex(header, COUNTRY_CODE) # 0

AppleParse(text, date_str) ==
  LET lines == Split(Strip(text), NL)
      header == Split(lines[1], TAB)
  IN IF ~HeaderFound(header) THEN [exc |-> "none", found |-> FALSE, data |-> <<>>]
     ELSE AppleLoop(Tail(lines), 1, ListIndex(header, UNITS),
                    ListIndex(header, COUNTRY_CODE), date_str, <<>>)

(* ------------------------------------------------------------------ *)
(* The vendors' side: the records behind the Google Play export and the *)
(* App Store report, and the text each vendor writes for them           *)
(* ------------------------------------------------------------------ *)
Dates == {[year |-> 2024, month |-> 3, day |-> 1], [year |-> 2024, month |-> 3, day |-> 2]}
US == <<"U","S">>
JP == <<"J","P">>
Countries == {US, JP}
\* a count cell is written as the decimal of n followed by junk (none when well formed)
Cell(n, junk) == [n |-> n, junk |-> junk]
CountCells == {Cell(12, <<>>), Cell(0, <<>>), Cell(-1, <<>>), Cell(12, <<"x">>)}
Rec(date, country, cell) == [date |-> date, country |-> country, cell |-> cell]
Recs(dates) == {Rec(d, c, k) : d \in dates, c \in Countries, k \in CountCells}

PACKAGE_NAME == <<"P","a","c","k","a","g","e"," ","N","a","m","e">>
SKU == <<"S","K","U">>
GooglePlayHeader == <<DATE, PACKAGE_NAME, COUNTRY, DAILY_USER_INSTALLS>>
GooglePlayLayouts ==
  { GooglePlayHeader,
    <<DAILY_USER_INSTALLS, COUNTRY, DATE>>,
    <<PACKAGE_NAME, COUNTRY, DAILY_USER_INSTALLS>>,
    <<DATE, COUNTRY>>,
    <<DATE, DAILY_USER_INSTALLS>> }
AppleHeader == <<SKU, UNITS, COUNTRY_CODE>>
AppleLayouts ==
  { AppleHeader,
    <<UNITS, COUNTRY_CODE>>,
    <<COUNTRY_CODE, SKU, UNITS>>,
    <<SKU, COUNTRY_CODE>>,
    <<UNITS, SKU>> }

\* a vendor table: the column layout, the records, and whether the last
\* record's line is cut off after its first field
Table(layout, recs, short) == [layout |-> layout, recs |-> recs, short |-> short]
NoTable == Table(<<>>, <<>>, FALSE)
\* table is one of the tables of at most n records over recset
IsTable(table, layouts, recset, n) ==
  \E l \in layouts, k \in 0..n :
    \E r \in [1..k -> recset], sh \in BOOLEAN :
      /\ sh => k > 0
      /\ table = Table(l, r, sh)

\* str(n) for an integer
RECURSIVE FormatNat(_)
FormatNat(n) == IF n < 10 THEN <<Digit[n + 1]>> ELSE Append(FormatNat(n \div 10), Digit[(n % 10) + 1])
FormatInt(n) == IF n < 0 THEN <<"-">> \o FormatNat(0 - n) ELSE FormatNat(n)

RECURSIVE Join(_, _)
Join(parts, sep) ==
  IF parts = <<>> THEN <<>>
  ELSE IF Len(parts) = 1 THEN parts[1]
  ELSE parts[1] \o <<sep>> \o Join(Tail(parts), sep)

\* the vendor writes dates as YYYY-MM-DD
IsoDate(d) == Pad(d.year, 4) \o <<"-">> \o Pad(d.month, 2) \o <<"-">> \o Pad(d.day, 2)
RenderField(col, rec) ==
  IF col = DATE THEN IsoDate(rec.date)
  ELSE IF col \in {COUNTRY, COUNTRY_CODE} THEN rec.country
  ELSE IF col \in {DAILY_USER_INSTALLS, UNITS} THEN FormatInt(rec.cell.n) \o rec.cell.junk
  ELSE <<"a","p","p">>
RenderLine(layout, rec, short, sep) ==
  LET fields == [i \in 1..Len(layout) |-> RenderField(layout[i], rec)]
  IN Join(IF short THEN SubSeq(fields, 1, 1) ELSE fields, sep)
\* the file: the header line, one line per record, each line ended by a newline
RenderTable(t, sep) ==
  LET n == Len(t.recs)
      lines == [i \in 1..n |-> RenderLine(t.layout, t.recs[i], t.short /\ i = n, sep)]
  IN Join(<<Join(t.layout, sep)>> \o lines, NL) \o <<NL>>

\* the exports the bucket may hold and the reports the API may serve in a
\* scheduled run: the documented scenarios and their malformed variants
GooglePlayCatalog ==
  LET d1 == [year |-> 2024, month |-> 3, day |-> 1]
      d2 == [year |-> 2024, month |-> 3, day |-> 2]
  IN { Table(GooglePlayHeader, <<>>, FALSE),
       Table(GooglePlayHeader,
             <<Rec(d1, US, Cell(12, <<>>)), Rec(d1, JP, Cell(0, <<>>)),
               Rec(d2, US, Cell(12, <<>>)), Rec(d1, JP, Cell(12, <<>>))>>, FALSE),
       Table(GooglePlayHeader, <<Rec(d1, US, Cell(12, <<"x">>))>>, FALSE),
       Table(<<PACKAGE_NAME, COUNTRY, DAILY_USER_INSTALLS>>,
             <<Rec(d1, US, Cell(12, <<>>))>>, FALSE) }
AppleCatalog(d) ==
  { Table(AppleHeader, <<>>, FALSE),
    Table(AppleHeader,
          <<Rec(d, JP, Cell(12, <<>>)), Rec(d, US, Cell(0, <<>>)), Rec(d, US, Cell(12, <<>>))>>,
          FALSE),
    Table(AppleHeader, <<Rec(d, JP, Cell(12, <<>>))>>, TRUE),
    Table(<<SKU, COUNTRY_CODE>>, <<Rec(d, JP, Cell(12, <<>>))>>, FALSE),
    Table(<<UNITS, SKU>>, <<Rec(d, JP, Cell(12, <<>>))>>, FALSE) }
StatusCodes == {200, 401, 500}

(* ------------------------------------------------------------------ *)
(* State                                                                *)
(* ------------------------------------------------------------------ *)
VARIABLES
  pc,            \* position of the process in daily_sync.py
  runs,          \* how many times the scheduler has started the job
  target_date,   \* __main__: target_date
  content,       \* the running fetcher's local: content
  data,          \* the running fetcher's local: data
  android_data,  \* __main__: android_data
  ios_data,      \* __main__: ios_data
  all_data,      \* __main__: all_data, update_sheet's new_rows
  exc,           \* the uncaught exception that ended the process, or "none"
  calls,         \* the calls this run has made to external services, in order
  table,         \* vendor side: the records behind the text the running fetcher holds
  response,      \* the HTTP response of requests.get
  sheet,         \* the rows of the worksheet
  appended       \* spreadsheet service: the batches it has accepted, in order

vars == <<pc, runs, target_date, content, data, android_data, ios_data, all_data,
          exc, calls, table, response, sheet, appended>>

\* a call to an external service, how it ended, and the rows it carried
Call(op, result, rows) == [op |-> op, result |-> result, rows |-> rows]
Response(status_code, gzip, text) == [status_code |-> status_code, gzip |-> gzip, text |-> text]
NoResponse == Response(0, FALSE, <<>>)

Init ==
  /\ pc = "idle"
  /\ runs = 0
  /\ target_date \in Dates
  /\ content = <<>>
  /\ data = <<>>
  /\ android_data = <<>>
  /\ ios_data = <<>>
  /\ all_data = <<>>
  /\ exc = "none"
  /\ calls = <<>>
  /\ table = NoTable
  /\ response = NoResponse
  /\ sheet = <<>>
  /\ appended = <<>>

(* ------------------------------------------------------------------ *)
(* __main__, lines 181-192                                              *)
(* ------------------------------------------------------------------ *)
\* lines 185-188: the scheduler starts the job; the target date is now - 2 days
main_Start ==
  /\ pc \in {"idle", "done", "aborted"}
  /\ runs < MaxRuns
  /\ runs' = runs + 1
  /\ target_date' \in Dates
  /\ pc' = "g_exists"
  /\ content' = <<>>
  /\ data' = <<>>
  /\ android_data' = <<>>
  /\ ios_data' = <<>>
  /\ all_data' = <<>>
  /\ exc' = "none"
  /\ calls' = <<>>
  /\ table' = NoTable
  /\ response' = NoResponse
  /\ UNCHANGED <<sheet, appended>>

\* an exception that nothing catches ends the process where it was raised
Abort(e) ==
  /\ pc' = "aborted"
  /\ exc' = e

(* ------------------------------------------------------------------ *)
(* get_google_play_data, lines 32-86                                    *)
(* ------------------------------------------------------------------ *)
\* what the function hands back to line 188; its frame is gone
GooglePlayReturns(rows) ==
  /\ android_data' = rows
  /\ pc' = "a_request"
  /\ content' = <<>>
  /\ data' = <<>>
  /\ table' = NoTable

\* a variant without the early return of lines 53-55
get_google_play_data_Exists_NoAbsentReturn ==
  /\ pc = "g_exists"
  /\ \E outcome \in {"True", "False", "Forbidden", "Exception"} :
       /\ calls' = Append(calls, Call("blob.exists", outcome, <<>>))
       /\ IF outcome \in {"True", "False"}
          THEN /\ pc' = "g_download"
               /\ UNCHANGED <<content, data, android_data, table>>
          ELSE GooglePlayReturns(<<>>)
  /\ UNCHANGED <<runs, target_date, ios_data, all_data, exc, response, sheet, appended>>
\* lines 52-55 and the handlers of lines 58-64: blob.exists()
get_google_play_data_Exists ==
  /\ pc = "g_exists"
  /\ \E outcome \in {"True", "False", "Forbidden", "Exception"} :
       /\ calls' = Append(calls, Call("blob.exists", outcome, <<>>))
       /\ IF outcome = "True"
          THEN /\ pc' = "g_download"
               /\ UNCHANGED <<content, data, android_data, table>>
          ELSE GooglePlayReturns(<<>>)
  /\ UNCHANGED <<runs, target_date, ios_data, all_data, exc, response, sheet, appended>>

\* line 57 and the handlers of lines 58-64: blob.download_as_text()
get_google_play_data_Download ==
  /\ pc = "g_download"
  /\ \/ \E t \in GooglePlayCatalog :
          /\ calls' = Append(calls, Call("blob.download_as_text", "ok", <<>>))
          /\ table' = t
          /\ content' = RenderTable(t, COMMA)
          /\ pc' = "g_parse"
          /\ UNCHANGED <<data, android_data>>
     \/ \E outcome \in {"Forbidden", "Exception"} :
          /\ calls' = Append(calls, Call("blob.download_as_text", outcome, <<>>))
          /\ GooglePlayReturns(<<>>)
  /\ UNCHANGED <<runs, target_date, ios_data, all_data, exc, response, sheet, appended>>

\* lines 66-85: the parse loop; nothing catches what it raises
get_google_play_data_Parse ==
  /\ pc = "g_parse"
  /\ LET r == GooglePlayParse(content, StrftimeYmd(target_date))
     IN IF r.exc = "none"
        THEN /\ data' = r.data
             /\ pc' = "g_return"
             /\ UNCHANGED exc
        ELSE /\ Abort(r.exc)
             /\ UNCHANGED data
  /\ UNCHANGED <<runs, target_date, content, android_data, ios_data, all_data, calls,
                 table, response, sheet, appended>>

\* line 86, and the assignment of line 188
get_google_play_data_Return ==
  /\ pc = "g_return"
  /\ GooglePlayReturns(data)
  /\ UNCHANGED <<runs, target_date, ios_data, all_data, exc, calls, response, sheet,
                 appended>>

(* ------------------------------------------------------------------ *)
(* get_apple_data, lines 88-161                                         *)
(* ------------------------------------------------------------------ *)
\* what the function hands back to line 189; its frame is gone
AppleReturns(rows) ==
  /\ ios_data' = rows
  /\ pc' = "m_concat"
  /\ content' = <<>>
  /\ data' = <<>>
  /\ table' = NoTable

\* a variant that only treats server errors as failures
StatusOk_Below500(status_code) == status_code < 500
\* line 122: only status 200 is a report
StatusOk(status_code) == status_code = 200

\* lines 120-124: requests.get() and the status check; the service answers
\* with the report of the requested date, or the request itself raises
get_apple_data_Request ==
  /\ pc = "a_request"
  /\ \/ \E t \in AppleCatalog(target_date), st \in StatusCodes, gz \in BOOLEAN :
          /\ calls' = Append(calls, Call("requests.get", "response", <<>>))
          /\ response' = Response(st, gz, RenderTable(t, TAB))
          /\ IF ~StatusOk(st)
             THEN AppleReturns(<<>>)
             ELSE /\ pc' = "a_decompress"
                  /\ table' = t
                  /\ UNCHANGED <<content, data, ios_data>>
          /\ UNCHANGED exc
     \/ /\ calls' = Append(calls, Call("requests.get", "ConnectionError", <<>>))
        /\ Abort("ConnectionError")
        /\ UNCHANGED <<content, data, table, response, ios_data>>
  /\ UNCHANGED <<runs, target_date, android_data, all_data, sheet, appended>>

\* lines 128-132: gzip.decompress(response.content).decode('utf-8')
get_apple_data_Decompress ==
  /\ pc = "a_decompress"
  /\ IF response.gzip
     THEN /\ content' = response.text
          /\ pc' = "a_parse"
          /\ UNCHANGED <<data, ios_data, table>>
     ELSE AppleReturns(<<>>)
  /\ UNCHANGED <<runs, target_date, android_data, all_data, exc, calls, response,
                 sheet, appended>>

\* lines 134-160: header lookup and the parse loop
get_apple_data_Parse ==
  /\ pc = "a_parse"
  /\ LET r == AppleParse(content, StrftimeYmd(target_date))
     IN IF r.exc # "none"
        THEN /\ Abort(r.exc)
             /\ UNCHANGED <<content, data, ios_data, table>>
        ELSE IF ~r.found
        THEN /\ AppleReturns(<<>>)
             /\ UNCHANGED exc
        ELSE /\ data' = r.data
             /\ pc' = "a_return"
             /\ UNCHANGED <<content, ios_data, exc, table>>
  /\ UNCHANGED <<runs, target_date, android_data, all_data, calls, response, sheet,
                 appended>>

\* line 161, and the assignment of line 189
get_apple_data_Return ==
  /\ pc = "a_return"
  /\ AppleReturns(data)
  /\ UNCHANGED <<runs, target_date, android_data, all_data, exc, calls, response,
                 sheet, appended>>

(* ------------------------------------------------------------------ *)
(* __main__ lines 191-192 and update_sheet, lines 163-179               *)
(* ------------------------------------------------------------------ *)
\* a variant that puts the iOS rows first
Concat_IosFirst(android_rows, ios_rows) == ios_rows \o android_rows
\* line 191
Concat(android_rows, ios_rows) == android_rows \o ios_rows

main_Concat ==
  /\ pc = "m_concat"
  /\ all_data' = Concat(android_data, ios_data)
  /\ pc' = "u_check"
  /\ UNCHANGED <<runs, target_date, content, data, android_data, ios_data, exc, calls,
                 table, response, sheet, appended>>

\* a variant without the guard of line 167
NothingToUpload_Never(new_rows) == FALSE
\* line 167
NothingToUpload(new_rows) == new_rows = <<>>

\* lines 167-169
update_sheet_Check ==
  /\ pc = "u_check"
  /\ pc' = IF NothingToUpload(all_data) THEN "done" ELSE "u_authorize"
  /\ UNCHANGED <<runs, target_date, content, data, android_data, ios_data, all_data, exc,
                 calls, table, response, sheet, appended>>

\* a variant that tries the call again when it raises
SheetCall_Retry(op, rows, next) ==
  /\ \/ /\ calls' = Append(calls, Call(op, "ok", rows))
        /\ pc' = next
     \/ /\ calls' = Append(calls, Call(op, "APIError", rows))
        /\ pc' = pc
  /\ UNCHANGED <<runs, target_date, content, data, android_data, ios_data, all_data,
                 exc, table, response>>
\* a call to the spreadsheet service that succeeds and moves on, or raises
SheetCall(op, rows, next) ==
  /\ \/ /\ calls' = Append(calls, Call(op, "ok", rows))
        /\ pc' = next
        /\ UNCHANGED exc
     \/ /\ calls' = Append(calls, Call(op, "APIError", rows))
        /\ Abort("APIError")
  /\ UNCHANGED <<runs, target_date, content, data, android_data, ios_data, all_data,
                 table, response>>

\* lines 173-175
update_sheet_Authorize ==
  /\ pc = "u_authorize"
  /\ SheetCall("gspread.authorize", <<>>, "u_open")
  /\ UNCHANGED <<sheet, appended>>

\* line 177
update_sheet_Open ==
  /\ pc = "u_open"
  /\ SheetCall("open_by_key", <<>>, "u_append")
  /\ UNCHANGED <<sheet, appended>>

\* a variant that skips the rows the worksheet already holds
AppendRows_SkipPresent(rows, new_rows) ==
  rows \o SelectSeq(new_rows, LAMBDA r : \A i \in 1..Len(rows) : rows[i] # r)
\* what append_rows does to the worksheet
AppendRows(rows, new_rows) == rows \o new_rows

\* lines 178-179: one append_rows call with every row
update_sheet_Append ==
  /\ pc = "u_append"
  /\ SheetCall("append_rows", all_data, "done")
  /\ IF pc' = "done"
     THEN /\ sheet' = AppendRows(sheet, all_data)
          /\ appended' = Append(appended, all_data)
     ELSE UNCHANGED <<sheet, appended>>

Next ==
  \/ main_Start
  \/ get_google_play_data_Exists
  \/ get_google_play_data_Download
  \/ get_google_play_data_Parse
  \/ get_google_play_data_Return
  \/ get_apple_data_Request
  \/ get_apple_data_Decompress
  \/ get_apple_data_Parse
  \/ get_apple_data_Return
  \/ main_Concat
  \/ update_sheet_Check
  \/ update_sheet_Authorize
  \/ update_sheet_Open
  \/ update_sheet_Append

Spec == Init /\ [][Next]_vars

(* ------------------------------------------------------------------ *)
(* The fetchers on every table of the bounded vendor sets: one run that *)
(* starts where a fetcher holds the text it is about to parse           *)
(* ------------------------------------------------------------------ *)
InitFetch ==
  /\ runs = 1
  /\ target_date \in Dates
  /\ data = <<>>
  /\ android_data = <<>>
  /\ ios_data = <<>>
  /\ all_data = <<>>
  /\ exc = "none"
  /\ sheet = <<>>
  /\ appended = <<>>
  /\ \/ /\ pc = "g_parse"
        /\ IsTable(table, GooglePlayLayouts, Recs(Dates), MaxRows)
        /\ content = RenderTable(table, COMMA)
        /\ response = NoResponse
        /\ calls = <<Call("blob.exists", "True", <<>>),
                     Call("blob.download_as_text", "ok", <<>>)>>
     \/ /\ pc = "a_parse"
        /\ IsTable(table, AppleLayouts, Recs({target_date}), MaxRows)
        /\ content = RenderTable(table, TAB)
        /\ response = Response(200, TRUE, content)
        /\ calls = <<Call("blob.exists", "False", <<>>),
                     Call("requests.get", "response", <<>>)>>

NextFetch ==
  \/ get_google_play_data_Parse
  \/ get_google_play_data_Return
  \/ get_apple_data_Request
  \/ get_apple_data_Decompress
  \/ get_apple_data_Parse
  \/ get_apple_data_Return
  \/ main_Concat
  \/ update_sheet_Check
  \/ update_sheet_Authorize
  \/ update_sheet_Open
  \/ update_sheet_Append

SpecFetch == InitFetch /\ [][NextFetch]_vars

(* ------------------------------------------------------------------ *)
(* Vocabulary of the properties                                         *)
(* ------------------------------------------------------------------ *)
HasColumn(layout, col) == \E i \in 1..Len(layout) : layout[i] = col
WellFormed(t) == ~t.short /\ \A i \in 1..Len(t.recs) : t.recs[i].cell.junk = <<>>
ValidGooglePlay(t) ==
  /\ WellFormed(t)
  /\ HasColumn(t.layout, DATE)
  /\ HasColumn(t.layout, COUNTRY)
  /\ HasColumn(t.layout, DAILY_USER_INSTALLS)
ValidApple(t) ==
  /\ WellFormed(t)
  /\ HasColumn(t.layout, UNITS)
  /\ HasColumn(t.layout, COUNTRY_CODE)
\* one row per record of date d with a positive count, in the records' order
ExpectedRows(recs, d, platform) ==
  LET keep == SelectSeq(recs, LAMBDA r : r.date = d /\ r.cell.n > 0)
  IN [i \in 1..Len(keep) |-> <<IsoDate(d), keep[i].country, platform, keep[i].cell.n>>]
PositiveCounts(rows) == \A i \in 1..Len(rows) : rows[i][4] > 0
CallsOf(ops) == SelectSeq(calls, LAMBDA c : c.op \in ops)
SheetOps == {"gspread.authorize", "open_by_key", "append_rows"}
ParseExceptions == {"KeyError", "ValueError", "TypeError", "IndexError"}
InGooglePlay == pc \in {"g_exists", "g_download", "g_parse", "g_return"}
InApple == pc \in {"a_request", "a_decompress", "a_parse", "a_return"}
AfterConcat == {"u_check", "u_authorize", "u_open", "u_append", "done"}
IsPrefix(p, q) == Len(p) <= Len(q) /\ SubSeq(q, 1, Len(p)) = p
\* the place of an external call in the order of the program text
CallRank(op) ==
  CASE op = "blob.exists" -> 1
    [] op = "blob.download_as_text" -> 2
    [] op = "requests.get" -> 3
    [] op = "gspread.authorize" -> 4
    [] op = "open_by_key" -> 5
    [] op = "append_rows" -> 6
RECURSIVE Copies(_, _)
Copies(rows, n) == IF n = 0 THEN <<>> ELSE rows \o Copies(rows, n - 1)

(* ------------------------------------------------------------------ *)
(* Properties                                                           *)
(* ------------------------------------------------------------------ *)

\* C1: a failure inside one fetcher never ends the process, so a run that
\* ends early has, at least, executed the other fetcher: the process is
\* never aborted before the App Store request has been issued.
C1_FailureInOneFetcherLeavesTheOtherRunning ==
  pc = "aborted" => CallsOf({"requests.get"}) # <<>>

\* C2: every row a fetcher holds or returns, and every row passed to
\* update_sheet, sent to the spreadsheet service or stored in the worksheet,
\* has a count greater than zero.
C2_EveryRowHasPositiveCount ==
  /\ PositiveCounts(data)
  /\ PositiveCounts(android_data)
  /\ PositiveCounts(ios_data)
  /\ PositiveCounts(all_data)
  /\ PositiveCounts(sheet)
  /\ \A i \in 1..Len(calls) : PositiveCounts(calls[i].rows)
  /\ \A i \in 1..Len(appended) : PositiveCounts(appended[i])
\* a well-formed export with a record of the target date whose count is not
\* positive has been parsed, and other records of it gave rows
C2_Witness ==
  /\ pc = "g_return"
  /\ ValidGooglePlay(table)
  /\ \E i \in 1..Len(table.recs) :
       table.recs[i].date = target_date /\ table.recs[i].cell.n <= 0
  /\ data # <<>>

\* C3: on a valid table the parse step of each fetcher ends at the return
\* statement with exactly one row per record of the target date with a
\* positive count, in the records' order: (date, country, platform, count);
\* and the return hands those rows to the caller unchanged.
C3_OneRowPerMatchingRecordInOrder ==
  [][ /\ (pc = "g_parse" /\ ValidGooglePlay(table))
           => (pc' = "g_return" /\ data' = ExpectedRows(table.recs, target_date, ANDROID))
      /\ (pc = "a_parse" /\ ValidApple(table))
           => (pc' = "a_return" /\ data' = ExpectedRows(table.recs, target_date, IOS))
      /\ pc = "g_return" => android_data' = data
      /\ pc = "a_return" => ios_data' = data ]_vars
\* a valid export of two records has given two rows of different countries
C3_Witness ==
  /\ pc = "g_return"
  /\ ValidGooglePlay(table)
  /\ Len(table.recs) = 2
  /\ Len(data) = 2
  /\ data[1][2] # data[2][2]

\* C4: update_sheet receives the Android rows followed by the iOS rows, and
\* a run makes at most one append_rows call, which carries exactly those
\* rows in that order; a run that ends normally with rows has made that
\* call, and it succeeded.
C4_OneBatchAppendOfAndroidThenIos ==
  /\ pc \in AfterConcat => all_data = android_data \o ios_data
  /\ Len(CallsOf({"append_rows"})) <= 1
  /\ \A i \in 1..Len(calls) :
       calls[i].op = "append_rows" => calls[i].rows = android_data \o ios_data
  /\ (pc = "done" /\ android_data \o ios_data # <<>>)
       => CallsOf({"append_rows"}) = <<Call("append_rows", "ok", android_data \o ios_data)>>
\* both fetchers returned two rows and the run ended normally
C4_Witness ==
  /\ pc = "done"
  /\ Len(android_data) = 2
  /\ Len(ios_data) = 2
  /\ Len(CallsOf({"append_rows"})) = 1

\* C5: with no rows to upload, update_sheet returns at once: the run has
\* made and makes no call to the spreadsheet service, and the worksheet is
\* left as it was.
C5_EmptyInputMakesNoSheetCall ==
  /\ [](((pc \in AfterConcat /\ all_data = <<>>) => CallsOf(SheetOps) = <<>>))
  /\ [][ (pc = "u_check" /\ all_data = <<>>)
           => (pc' = "done" /\ calls' = calls /\ sheet' = sheet /\ appended' = appended) ]_vars
\* both fetchers were executed, returned nothing, and the run ended
C5_Witness ==
  /\ pc = "done"
  /\ all_data = <<>>
  /\ CallsOf({"requests.get"}) # <<>>

C7_AppleRowsOnlyFromGoodResponse ==
  /\ []( /\ (data # <<>> /\ pc = "a_return")
              => (HasColumn(table.layout, UNITS) /\ HasColumn(table.layout, COUNTRY_CODE))
         /\ ((data # <<>> /\ pc = "a_return") \/ ios_data # <<>>)
              => (response.status_code = 200 /\ response.gzip)
         /\ (response # NoResponse /\ (response.status_code # 200 \/ ~response.gzip))
              => /\ ios_data = <<>>
                 /\ pc \notin {"a_parse", "a_return"}
                 /\ response.status_code # 200 => pc # "a_decompress"
                 /\ pc = "aborted" => CallsOf(SheetOps) # <<>> )
  /\ [][ (pc = "a_parse"
            /\ ~(HasColumn(table.layout, UNITS) /\ HasColumn(table.layout, COUNTRY_CODE)))
           => (pc' = "m_concat" /\ ios_data' = <<>> /\ exc' = "none") ]_vars
\* a response of another status whose body is a gzip report: no rows
C7_Witness ==
  /\ pc = "m_concat"
  /\ response # NoResponse
  /\ response.status_code # 200
  /\ response.gzip
  /\ ios_data = <<>>

\* C8: a parsing failure inside a fetcher makes the fetcher return the empty
\* list: the process is never ended by an exception of the parse loops.
C8_ParseFailureGivesNoRows ==
  ~(pc = "aborted" /\ exc \in ParseExceptions)

\* C9: the external calls of a run are made in the order exists, download,
\* report request, authorize, open, append, each at most once; the Android
\* fetcher is over when the report is requested and both fetchers are over
\* when the spreadsheet service is first called; a call to the spreadsheet
\* service that raises is the last call of the run, which is aborted.
C9_StrictSequenceWithoutRetry ==
  /\ \A i, j \in 1..Len(calls) : i < j => CallRank(calls[i].op) < CallRank(calls[j].op)
  /\ CallsOf({"requests.get"}) # <<>> => ~InGooglePlay
  /\ CallsOf(SheetOps) # <<>> => (~InGooglePlay /\ ~InApple /\ pc # "m_concat")
  /\ \A i \in 1..Len(calls) :
       calls[i].result = "APIError" => (i = Len(calls) /\ pc = "aborted")
\* every external call was made once and the append raised
C9_Witness ==
  /\ pc = "aborted"
  /\ Len(calls) = 6
  /\ calls[6] = Call("append_rows", "APIError", all_data)

\* C10: the worksheet only grows at its end: each step leaves the rows it
\* held as a prefix of the rows it holds; and when every batch the service
\* accepted is the same batch, the worksheet holds that batch once per
\* accepted call.
C10_AppendOnlyWithoutDeduplication ==
  /\ []((\A i \in 1..Len(appended) : appended[i] = appended[1])
          => sheet = Copies(IF appended = <<>> THEN <<>> ELSE appended[1], Len(appended)))
  /\ [][IsPrefix(sheet, sheet')]_vars
\* two runs uploaded the same rows and the worksheet holds them twice
C10_Witness ==
  /\ Len(appended) = 2
  /\ appended[1] = appended[2]
  /\ sheet = appended[1] \o appended[1]
  /\ runs = 2

====
